---------------------------- MODULE Spec2Model ----------------------------
(***************************************************************************)
(* A model of wee.py: the Jinja2-to-PDF renderer with hot reload.          *)
(*                                                                         *)
(* Two threads run the program: "main" (main(), lines 337-404, and the     *)
(* signal handler) and "delivery" (the watchdog observer thread, which     *)
(* calls FileWatcher.on_modified for every queued event).  The render      *)
(* pipeline render_and_generate_pdf is the same code on both threads, so   *)
(* its steps are actions with the running thread as a parameter.  The      *)
(* environment edits files, lets the clock advance, makes the engines      *)
(* fail and sends the interrupt signal.                                    *)
(*                                                                         *)
(* Time is in abstract clock ticks (time.time() * 1000 in the source).     *)
(* A path is the sequence of its characters, so that str.startswith is     *)
(* modelled by what it does.                                               *)
(***************************************************************************)
EXTENDS Integers, Sequences, FiniteSets

VARIABLES
    debounce_ms,       \* config.debounce_ms
    watch_mode,        \* config.watch_mode
    context_file,      \* config.context_file: a path, or None
    template_dir,      \* config.template_dir: a path, or None
    context_data,      \* config.context_data
    last_render_time,  \* FileWatcher.last_render_time
    pending_render,    \* FileWatcher.pending_render
    template_cache,    \* TemplateRenderer._template_cache[abspath(template_file)]
    pc,                \* the position of each thread
    local,             \* the local variables of each thread
    stop_requested,    \* the observer's stop flag, set by observer.stop()
    queue,             \* the observer's event queue
    now,               \* the clock, time.time() * 1000
    tplFile,           \* the template file on disk: content version and mtime
    ctxFile,           \* the context file on disk
    htmlOut,           \* the markup file on disk
    pdfOut,            \* the PDF file on disk
    edits,             \* how many filesystem changes the environment has made
    faults,            \* whether the engines may raise in this run
    warned,            \* the last call of load_context printed its warning
    outcome,           \* how each thread's last render cycle ended
    log                \* the relevant events handled so far: when, and whether dispatched

\* The configuration, fixed when main() has parsed its arguments
config == <<debounce_ms, watch_mode, context_file, template_dir, faults>>

\* The watcher's debounce state and the history of its decisions
watcher == <<last_render_time, pending_render, log>>

\* The files the environment edits, the clock and the event queue
world == <<now, tplFile, ctxFile, edits, queue>>

\* The files the pipeline writes
outputs == <<htmlOut, pdfOut>>

vars == <<config, context_data, watcher, template_cache, pc, local,
          stop_requested, world, outputs, warned, outcome>>

-----------------------------------------------------------------------------
(* Bounds of the model *)

MaxDebounce == 2   \* debounce intervals 1..MaxDebounce ticks
MaxTime == 4       \* the clock advances at most MaxTime ticks
MaxEdits == 3      \* the environment makes at most MaxEdits filesystem changes
MaxContextTime == 2    \* MaxTime when a context file is configured
MaxContextEdits == 2   \* MaxEdits when a context file is configured

-----------------------------------------------------------------------------
(* Values *)

None == <<>>

\* The clock when the program starts.  time.time() * 1000 is far larger than
\* any debounce interval, and last_render_time starts at 0.
StartTime == MaxDebounce + 1

TemplatePath == <<"/", "t">>            \* os.path.abspath(config.template_file)
ContextPath == <<"/", "c">>             \* os.path.abspath(config.context_file)
TemplateDirPath == <<"/", "d">>         \* os.path.abspath(config.template_dir)
NestedPath == <<"/", "d", "/", "b">>    \* a file in the template directory
SiblingPath == <<"/", "d", "x">>        \* a file next to it whose name starts alike
OtherPath == <<"/", "o">>               \* a file in the watched directory, outside the scopes

FilePaths == {TemplatePath, ContextPath, NestedPath, SiblingPath, OtherPath}

Threads == {"main", "delivery"}

DefaultPayload == "default"
FilePayloads == {"A", "B"}

\* No markup (a file not written yet), no cache entry, no locals
NoMarkup == [tpl |-> -1, ctx |-> "none"]
NoEntry == [template |-> -1, mtime |-> -1]
NoLocal ==
    [changed_file |-> None, context |-> "none", template |-> -1, mtime |-> -1,
     html |-> NoMarkup]

PipelinePcs == {"p_load", "p_lookup", "p_get", "p_store", "p_html", "p_pdf"}

-----------------------------------------------------------------------------
(* Pure helpers *)

\* str.startswith
StartsWith(s, prefix) ==
    /\ Len(prefix) <= Len(s)
    /\ SubSeq(s, 1, Len(prefix)) = prefix

\* template.render(context): the markup of a template version and a payload
RenderMarkup(template, context) == [tpl |-> template, ctx |-> context]

\* LoadContext whose except branch returns nothing instead of falling through
\* to the default payload
LoadContextNoFallback ==
    IF context_file # None /\ ctxFile # "missing"
    THEN IF ctxFile = "malformed" THEN "none" ELSE ctxFile
    ELSE DefaultPayload

\* load_context(config), lines 237-253: the payload it returns
LoadContext ==
    IF context_file # None /\ ctxFile # "missing"
    THEN IF ctxFile = "malformed" THEN DefaultPayload ELSE ctxFile
    ELSE DefaultPayload

\* load_context(config), lines 241-242: whether it prints its warning
LoadContextWarns ==
    /\ context_file # None
    /\ ctxFile = "malformed"

\* on_modified, lines 189-200: should_render for an event's path
ShouldRender(file_path) ==
    IF file_path = TemplatePath THEN TRUE
    ELSE IF context_file # None /\ file_path = context_file THEN TRUE
    ELSE IF template_dir # None THEN StartsWith(file_path, template_dir)
    ELSE FALSE

\* Debounced with the interval taken in seconds against a clock in milliseconds
DebouncedInSeconds(current_time, last, interval) ==
    current_time - last < interval \div 1000

\* Debounced with a window of half the interval
DebouncedHalfWindow(current_time, last, interval) ==
    current_time - last < interval \div 2

\* Debounced with the boundary inside the window
DebouncedInclusive(current_time, last, interval) == current_time - last <= interval

\* on_modified, line 207: the event falls inside the debounce window
Debounced(current_time, last, interval) == current_time - last < interval

\* LastRenderTime that leaves the stored time as it is
LastRenderTimeKept(current_time) == last_render_time

\* on_modified, line 211: the last-render time a dispatched event stores
LastRenderTime(current_time) == current_time

\* AfterHandling with a render for a debounced event too
AfterHandlingTrailing(dispatch) == "trigger"

\* on_modified, lines 207-212: where the observer thread goes when the debounce
\* test is made: into _trigger_render, or out of the handler (the return of
\* line 209)
AfterHandling(dispatch) == IF dispatch THEN "trigger" ELSE "idle"

\* CacheFresh with equal timestamps counted as stale
CacheFreshStrict(current_mtime, cached_mtime) == current_mtime < cached_mtime

\* render_template, line 125: the cached template is still fresh
CacheFresh(current_mtime, cached_mtime) == current_mtime <= cached_mtime

\* CachedRender with config.context_data in place of the context passed
CachedRenderConfigData(entry, context) == RenderMarkup(entry.template, context_data)

\* render_template, line 127: the markup returned on a cache hit
CachedRender(entry, context) == RenderMarkup(entry.template, context)

\* The outcomes of a call into an engine: TRUE it returns, FALSE it raises
Outcomes == IF faults THEN BOOLEAN ELSE {TRUE}

\* The notification subscription delivers events to the observer's queue
Subscribed == pc["delivery"] \notin {"off", "terminated"} /\ ~stop_requested

\* ShouldKeepRunning with the stop flag ignored
ShouldKeepRunningAlways == TRUE

\* The observer thread's loop condition: observer.stop() (line 178) has not
\* been called
ShouldKeepRunning == ~stop_requested

\* Joined with a join that does not wait for the thread
JoinedAtOnce == TRUE

\* stop_watching, line 179: observer.join() returns, the observer thread having
\* ended
Joined == pc["delivery"] = "terminated"

\* WatcherLastRenderTime with the watcher created as if it had just rendered
WatcherLastRenderTimeNow == now

\* FileWatcher.__init__, line 145: the last-render time of a new watcher
WatcherLastRenderTime == 0

\* MainFlow with a second render on the main thread once the watcher runs
MainFlowRenderAgain(step) ==
    CASE step = "context_loaded" -> "p_load"
      [] step = "rendered" -> IF watch_mode /\ pc["delivery"] = "off"
                              THEN "start_watching"
                              ELSE IF watch_mode THEN "watch_loop" ELSE "exited"
      [] step = "watching" -> "p_load"

\* MainFlow with the watcher started before the initial render
MainFlowWatchFirst(step) ==
    CASE step = "context_loaded" -> IF watch_mode THEN "start_watching" ELSE "p_load"
      [] step = "watching" -> "p_load"
      [] step = "rendered" -> IF watch_mode THEN "watch_loop" ELSE "exited"

\* main(), lines 376-400: where the main thread goes after each of its steps
MainFlow(step) ==
    CASE step = "context_loaded" -> "p_load"
      [] step = "rendered" -> IF watch_mode THEN "start_watching" ELSE "exited"
      [] step = "watching" -> "watch_loop"

-----------------------------------------------------------------------------
(* The render pipeline, render_and_generate_pdf, run by thread t *)

\* Where a thread goes when the pipeline returns
Returned(t) == IF t = "main" THEN MainFlow("rendered") ELSE "idle"

\* Raised without the except clause of _trigger_render: the thread dies
RaisedUncaught(t) == "crashed"

\* Raised with the exception ending the observer thread
RaisedEndsThread(t) == IF t = "main" THEN "crashed" ELSE "terminated"

\* Where a thread goes when the pipeline raises: main() has no handler
\* (line 382), _trigger_render catches and reports (lines 231-232)
Raised(t) == IF t = "main" THEN "crashed" ELSE "idle"

\* The pipeline run by t raises
Raise(t) ==
    /\ pc' = [pc EXCEPT ![t] = Raised(t)]
    /\ local' = [local EXCEPT ![t] = NoLocal]
    /\ outcome' = [outcome EXCEPT ![t] = "raised"]

\* line 283: context = load_context(config)
PLoad(t) ==
    /\ pc[t] = "p_load"
    /\ local' = [local EXCEPT ![t].context = LoadContext]
    /\ warned' = LoadContextWarns
    /\ outcome' = [outcome EXCEPT ![t] = "none"]
    /\ pc' = [pc EXCEPT ![t] = "p_lookup"]
    /\ UNCHANGED <<config, context_data, watcher, template_cache,
                   stop_requested, world, outputs>>

\* lines 121-127: the cache lookup, and the render of a cached template
PLookup(t) ==
    /\ pc[t] = "p_lookup"
    /\ IF /\ template_cache # NoEntry
          /\ CacheFresh(tplFile.mtime, template_cache.mtime)
       THEN \E ok \in Outcomes :
              IF ok
              THEN /\ local' = [local EXCEPT
                          ![t].html = CachedRender(template_cache, local[t].context)]
                   /\ pc' = [pc EXCEPT ![t] = "p_html"]
                   /\ UNCHANGED outcome
              ELSE Raise(t)
       ELSE /\ pc' = [pc EXCEPT ![t] = "p_get"]
            /\ UNCHANGED <<local, outcome>>
    /\ UNCHANGED <<config, context_data, watcher, template_cache,
                   stop_requested, world, outputs, warned>>

\* lines 130-131: env.get_template reads the template from disk, then renders
\* it; the mtime of the file it read is kept with the handle
PGet(t) ==
    /\ pc[t] = "p_get"
    /\ \E ok \in Outcomes :
         IF ok
         THEN /\ local' = [local EXCEPT
                     ![t].template = tplFile.content,
                     ![t].mtime = tplFile.mtime,
                     ![t].html = RenderMarkup(tplFile.content, local[t].context)]
              /\ pc' = [pc EXCEPT ![t] = "p_store"]
              /\ UNCHANGED outcome
         ELSE Raise(t)
    /\ UNCHANGED <<config, context_data, watcher, template_cache,
                   stop_requested, world, outputs, warned>>

\* line 134: the template is cached with the file's mtime read now
PStore(t) ==
    /\ pc[t] = "p_store"
    /\ template_cache' = [template |-> local[t].template, mtime |-> tplFile.mtime]
    /\ local' = [local EXCEPT ![t].mtime = NoLocal.mtime]
    /\ pc' = [pc EXCEPT ![t] = "p_html"]
    /\ UNCHANGED <<config, context_data, watcher, stop_requested, world,
                   outputs, warned, outcome>>

\* lines 290-292: the markup file is written
PHtml(t) ==
    /\ pc[t] = "p_html"
    /\ \E ok \in Outcomes :
         IF ok
         THEN /\ htmlOut' = local[t].html
              /\ pc' = [pc EXCEPT ![t] = "p_pdf"]
              /\ UNCHANGED <<local, outcome>>
         ELSE /\ Raise(t)
              /\ UNCHANGED htmlOut
    /\ UNCHANGED <<config, context_data, watcher, template_cache,
                   stop_requested, world, pdfOut, warned>>

\* lines 296-300: the PDF is written (html_to_pdf); open_pdf never raises
PPdf(t) ==
    /\ pc[t] = "p_pdf"
    /\ \E ok \in Outcomes :
         IF ok
         THEN /\ pdfOut' = local[t].html
              /\ pc' = [pc EXCEPT ![t] = Returned(t)]
              /\ local' = [local EXCEPT ![t] = NoLocal]
              /\ outcome' = [outcome EXCEPT ![t] = "returned"]
         ELSE /\ Raise(t)
              /\ UNCHANGED pdfOut
    /\ UNCHANGED <<config, context_data, watcher, template_cache,
                   stop_requested, world, htmlOut, warned>>

Pipeline(t) == PLoad(t) \/ PLookup(t) \/ PGet(t) \/ PStore(t) \/ PHtml(t) \/ PPdf(t)

-----------------------------------------------------------------------------
(* FileWatcher, on the delivery thread *)

\* on_modified, lines 181-212: the observer thread takes the next event off
\* its queue and calls the handler
OnModified ==
    /\ pc["delivery"] = "idle"
    /\ ShouldKeepRunning
    /\ queue # <<>>
    /\ queue' = Tail(queue)
    /\ LET event == Head(queue) IN
         IF event.is_directory \/ ~ShouldRender(event.src_path)
         THEN UNCHANGED <<watcher, pc, local>>
         ELSE IF Debounced(now, last_render_time, debounce_ms)
         THEN /\ pending_render' = TRUE
              /\ pc' = [pc EXCEPT !["delivery"] = AfterHandling(FALSE)]
              /\ log' = Append(log, [at |-> now, dispatched |-> FALSE])
              /\ UNCHANGED <<last_render_time, local>>
         ELSE /\ last_render_time' = LastRenderTime(now)
              /\ local' = [local EXCEPT !["delivery"].changed_file = event.src_path]
              /\ pc' = [pc EXCEPT !["delivery"] = AfterHandling(TRUE)]
              /\ log' = Append(log, [at |-> now, dispatched |-> TRUE])
              /\ UNCHANGED pending_render
    /\ UNCHANGED <<config, context_data, template_cache, stop_requested, now,
                   tplFile, ctxFile, edits, outputs, warned, outcome>>

\* _trigger_render, lines 214-230: the context is reloaded when the context
\* file changed, then the pipeline is called
TriggerRender ==
    /\ pc["delivery"] = "trigger"
    /\ IF context_file # None /\ local["delivery"].changed_file = context_file
       THEN IF ctxFile \in FilePayloads
            THEN /\ context_data' = ctxFile
                 /\ pc' = [pc EXCEPT !["delivery"] = "p_load"]
                 /\ UNCHANGED <<local, outcome>>
            ELSE /\ pc' = [pc EXCEPT !["delivery"] = "idle"]
                 /\ local' = [local EXCEPT !["delivery"] = NoLocal]
                 /\ outcome' = [outcome EXCEPT !["delivery"] = "aborted"]
                 /\ UNCHANGED context_data
       ELSE /\ pc' = [pc EXCEPT !["delivery"] = "p_load"]
            /\ UNCHANGED <<context_data, local, outcome>>
    /\ UNCHANGED <<config, watcher, template_cache, stop_requested, world,
                   outputs, warned>>

\* The observer thread's loop ends once the stop flag is set
DeliveryStop ==
    /\ pc["delivery"] = "idle"
    /\ ~ShouldKeepRunning
    /\ pc' = [pc EXCEPT !["delivery"] = "terminated"]
    /\ UNCHANGED <<config, context_data, watcher, template_cache, local,
                   stop_requested, world, outputs, warned, outcome>>

-----------------------------------------------------------------------------
(* main(), on the main thread *)

\* line 376: config.context_data = load_context(config); line 382 follows
MainLoadContext ==
    /\ pc["main"] = "start"
    /\ context_data' = LoadContext
    /\ warned' = LoadContextWarns
    /\ pc' = [pc EXCEPT !["main"] = MainFlow("context_loaded")]
    /\ UNCHANGED <<config, watcher, template_cache, local, stop_requested,
                   world, outputs, outcome>>

\* lines 386-400: the watcher is created, the signal handlers are installed
\* and the observer thread is started
MainStartWatching ==
    /\ pc["main"] = "start_watching"
    /\ last_render_time' = WatcherLastRenderTime
    /\ pending_render' = FALSE
    /\ pc' = [pc EXCEPT !["main"] = MainFlow("watching"), !["delivery"] = "idle"]
    /\ UNCHANGED <<config, context_data, log, template_cache, local,
                   stop_requested, world, outputs, warned, outcome>>

\* lines 389-391: SIGINT or SIGTERM arrives in the watch loop, the handler
\* runs on the main thread
Interrupt ==
    /\ pc["main"] = "watch_loop"
    /\ pc' = [pc EXCEPT !["main"] = "stopping"]
    /\ UNCHANGED <<config, context_data, watcher, template_cache, local,
                   stop_requested, world, outputs, warned, outcome>>

\* stop_watching, line 178: observer.stop()
MainStop ==
    /\ pc["main"] = "stopping"
    /\ stop_requested' = TRUE
    /\ pc' = [pc EXCEPT !["main"] = "joining"]
    /\ UNCHANGED <<config, context_data, watcher, template_cache, local,
                   world, outputs, warned, outcome>>

\* stop_watching, line 179, then line 392: observer.join() returns when the
\* observer thread has ended, and the process exits
MainJoin ==
    /\ pc["main"] = "joining"
    /\ Joined
    /\ pc' = [pc EXCEPT !["main"] = "exited"]
    /\ UNCHANGED <<config, context_data, watcher, template_cache, local,
                   stop_requested, world, outputs, warned, outcome>>

-----------------------------------------------------------------------------
(* The environment *)

\* The process is running
Alive == pc["main"] \notin {"exited", "crashed"}

\* How far the clock advances and how many changes the environment makes: fewer
\* when a context file is configured, the changes being of more kinds
TimeBudget == IF context_file = None THEN MaxTime ELSE MaxContextTime
EditBudget == IF context_file = None THEN MaxEdits ELSE MaxContextEdits

\* The clock advances
Tick ==
    /\ Alive
    /\ now < StartTime + TimeBudget
    /\ now' = now + 1
    /\ UNCHANGED <<config, context_data, watcher, template_cache, pc, local,
                   stop_requested, tplFile, ctxFile, edits, queue, outputs,
                   warned, outcome>>

\* The events the subscription adds to the queue for a change
Delivered(event) == IF Subscribed THEN Append(queue, event) ELSE queue

\* A file is modified: the template gets a new content and mtime, the context
\* file a new content; the subscription reports a file-modified event
ModifyFile(path) ==
    /\ Alive
    /\ edits < EditBudget
    /\ edits' = edits + 1
    /\ IF path = TemplatePath
       THEN tplFile' = [content |-> tplFile.content + 1, mtime |-> now]
       ELSE UNCHANGED tplFile
    /\ IF path = context_file
       THEN \E c \in (FilePayloads \cup {"malformed"}) \ {ctxFile} : ctxFile' = c
       ELSE UNCHANGED ctxFile
    /\ queue' = Delivered([src_path |-> path, is_directory |-> FALSE])
    /\ UNCHANGED <<config, context_data, watcher, template_cache, pc, local,
                   stop_requested, now, outputs, warned, outcome>>

\* The template directory itself is modified: a directory-modified event
ModifyDir ==
    /\ Alive
    /\ Subscribed
    /\ edits < EditBudget
    /\ edits' = edits + 1
    /\ queue' = Append(queue, [src_path |-> TemplateDirPath, is_directory |-> TRUE])
    /\ UNCHANGED <<config, context_data, watcher, template_cache, pc, local,
                   stop_requested, now, tplFile, ctxFile, outputs, warned,
                   outcome>>

\* The context file is deleted: no file-modified event is reported for it
DeleteContext ==
    /\ Alive
    /\ context_file # None
    /\ ctxFile # "missing"
    /\ edits < EditBudget
    /\ edits' = edits + 1
    /\ ctxFile' = "missing"
    /\ UNCHANGED <<config, context_data, watcher, template_cache, pc, local,
                   stop_requested, now, tplFile, queue, outputs, warned,
                   outcome>>

-----------------------------------------------------------------------------
(* The program from its start, the template being the only watched file *)

\* The state when main() has parsed and validated its arguments (line 373)
Init ==
    /\ debounce_ms \in 1..MaxDebounce
    /\ watch_mode \in BOOLEAN
    /\ context_file = None
    /\ template_dir = None
    /\ faults \in BOOLEAN
    /\ ctxFile = "missing"
    /\ context_data = "none"
    /\ last_render_time = 0
    /\ pending_render = FALSE
    /\ template_cache = NoEntry
    /\ pc = [t \in Threads |-> IF t = "main" THEN "start" ELSE "off"]
    /\ local = [t \in Threads |-> NoLocal]
    /\ stop_requested = FALSE
    /\ queue = <<>>
    /\ now = StartTime
    /\ tplFile = [content |-> 0, mtime |-> 0]
    /\ htmlOut = NoMarkup
    /\ pdfOut = NoMarkup
    /\ edits = 0
    /\ warned = FALSE
    /\ outcome = [t \in Threads |-> "none"]
    /\ log = <<>>

Next ==
    \/ \E t \in Threads : Pipeline(t)
    \/ OnModified
    \/ TriggerRender
    \/ DeliveryStop
    \/ MainLoadContext
    \/ MainStartWatching
    \/ Interrupt
    \/ MainStop
    \/ MainJoin
    \/ Tick
    \/ ModifyFile(TemplatePath)

Spec == Init /\ [][Next]_vars

-----------------------------------------------------------------------------
(* Watch mode, from the moment the observer is started *)

\* The markup of the initial render of template version 0
InitialMarkup(payload) == RenderMarkup(0, payload)

\* The state when main() has rendered once and has started the watcher
\* (line 397), for the configuration and the context file chosen
WatchStarted ==
    /\ watch_mode = TRUE
    /\ context_data = LoadContext
    /\ last_render_time = 0
    /\ pending_render = FALSE
    /\ template_cache = [template |-> 0, mtime |-> 0]
    /\ pc = [t \in Threads |-> IF t = "main" THEN "watch_loop" ELSE "idle"]
    /\ local = [t \in Threads |-> NoLocal]
    /\ stop_requested = FALSE
    /\ queue = <<>>
    /\ now = StartTime
    /\ tplFile = [content |-> 0, mtime |-> 0]
    /\ htmlOut = InitialMarkup(LoadContext)
    /\ pdfOut = InitialMarkup(LoadContext)
    /\ edits = 0
    /\ warned = FALSE
    /\ outcome = [t \in Threads |-> IF t = "main" THEN "returned" ELSE "none"]
    /\ log = <<>>

\* Watch mode with the template as the only watched file
InitWatching ==
    /\ debounce_ms \in 1..MaxDebounce
    /\ context_file = None
    /\ template_dir = None
    /\ faults \in BOOLEAN
    /\ ctxFile = "missing"
    /\ WatchStarted

NextWatching ==
    \/ Pipeline("delivery")
    \/ OnModified
    \/ TriggerRender
    \/ Tick
    \/ ModifyFile(TemplatePath)

SpecWatching == InitWatching /\ [][NextWatching]_vars

\* Watch mode late in the run, the clock having advanced while the initial
\* render was running: the last tick of the clock is still to come
InitStop ==
    /\ debounce_ms \in 1..MaxDebounce
    /\ watch_mode = TRUE
    /\ context_file = None
    /\ template_dir = None
    /\ faults \in BOOLEAN
    /\ ctxFile = "missing"
    /\ context_data = LoadContext
    /\ last_render_time = 0
    /\ pending_render = FALSE
    /\ template_cache = [template |-> 0, mtime |-> 0]
    /\ pc = [t \in Threads |-> IF t = "main" THEN "watch_loop" ELSE "idle"]
    /\ local = [t \in Threads |-> NoLocal]
    /\ stop_requested = FALSE
    /\ queue = <<>>
    /\ now = StartTime + MaxTime - 1
    /\ tplFile = [content |-> 0, mtime |-> 0]
    /\ htmlOut = InitialMarkup(LoadContext)
    /\ pdfOut = InitialMarkup(LoadContext)
    /\ edits = 0
    /\ warned = FALSE
    /\ outcome = [t \in Threads |-> IF t = "main" THEN "returned" ELSE "none"]
    /\ log = <<>>

NextStop ==
    \/ Pipeline("delivery")
    \/ OnModified
    \/ TriggerRender
    \/ DeliveryStop
    \/ Interrupt
    \/ MainStop
    \/ MainJoin
    \/ Tick
    \/ ModifyFile(TemplatePath)

\* The threads run: the signal handler on the main thread and the observer
\* thread each take their next step when they can
Fairness ==
    /\ WF_vars(MainStop)
    /\ WF_vars(MainJoin)
    /\ WF_vars(DeliveryStop)
    /\ WF_vars(TriggerRender)
    /\ WF_vars(Pipeline("delivery"))

\* Watch mode under an interrupt, with threads that run
SpecStop == InitStop /\ [][NextStop]_vars /\ Fairness

\* Watch mode with or without a context file and a template directory, and
\* events for every kind of path
InitFilter ==
    /\ debounce_ms \in 1..MaxDebounce
    /\ context_file \in {None, ContextPath}
    /\ template_dir \in {None, TemplateDirPath}
    /\ faults = FALSE
    /\ ctxFile = (IF context_file = None THEN "missing" ELSE "A")
    /\ WatchStarted

NextFilter ==
    \/ Pipeline("delivery")
    \/ OnModified
    \/ TriggerRender
    \/ Tick
    \/ \E path \in FilePaths : ModifyFile(path)
    \/ ModifyDir

SpecFilter == InitFilter /\ [][NextFilter]_vars

\* Watch mode with a context file, which exists when the program starts
InitContext ==
    /\ debounce_ms \in 1..MaxDebounce
    /\ context_file = ContextPath
    /\ template_dir = None
    /\ faults \in BOOLEAN
    /\ ctxFile \in {"malformed", "A"}
    /\ WatchStarted

NextContext ==
    \/ Pipeline("delivery")
    \/ OnModified
    \/ TriggerRender
    \/ Tick
    \/ \E path \in {TemplatePath, ContextPath} : ModifyFile(path)
    \/ DeleteContext

SpecContext == InitContext /\ [][NextContext]_vars

-----------------------------------------------------------------------------
(* Debouncing: claims C1, C2 *)

\* The time between the handling of relevant events i and j
Gap(i, j) == log[j].at - log[i].at

\* How many of the relevant events i..j dispatched a render
Dispatches(i, j) == Cardinality({k \in i..j : log[k].dispatched})

\* Events i..j are a burst: each is handled less than the debounce interval
\* after the one before, and no event before i or after j continues it
Burst(i, j) ==
    /\ \A k \in (i + 1)..j : Gap(k - 1, k) < debounce_ms
    /\ i > 1 => Gap(i - 1, i) >= debounce_ms
    /\ j < Len(log) => Gap(j, j + 1) >= debounce_ms

\* C1 as stated: relevant events that each follow the previous one by less than
\* the debounce interval dispatch exactly one render
C1_Original ==
    \A i \in 1..Len(log) : \A j \in i..Len(log) :
        Burst(i, j) => Dispatches(i, j) = 1

\* C1 amended: N >= 1 relevant events, the first of which is dispatched and all
\* of which are handled less than the debounce interval after the first one,
\* dispatch exactly one render, however long the renders take
C1_OneRenderPerWindow ==
    \A i \in 1..Len(log) : \A j \in i..Len(log) :
        (log[i].dispatched /\ Gap(i, j) < debounce_ms) => Dispatches(i, j) = 1

\* Three relevant events were handled inside one debounce window: the first
\* was dispatched and the two that followed were dropped
C1_Witness ==
    /\ Len(log) >= 3
    /\ \E i \in 1..(Len(log) - 2) :
        /\ log[i].dispatched
        /\ Gap(i, i + 2) < debounce_ms
        /\ ~log[i + 1].dispatched
        /\ ~log[i + 2].dispatched

\* C2 as stated: of two consecutive relevant events, both dispatch when they are
\* the debounce interval or more apart and exactly one dispatches when they are
\* closer, whatever happened before
C2_Original ==
    \A k \in 1..(Len(log) - 1) :
        IF Gap(k, k + 1) >= debounce_ms
        THEN log[k].dispatched /\ log[k + 1].dispatched
        ELSE Dispatches(k, k + 1) = 1

\* C2 amended: when the first of two consecutive relevant events is dispatched,
\* the second is dispatched if and only if it is handled the debounce interval
\* or more after the first
C2_Boundary ==
    \A k \in 1..(Len(log) - 1) :
        log[k].dispatched =>
            (log[k + 1].dispatched <=> Gap(k, k + 1) >= debounce_ms)

\* Two consecutive events exactly the debounce interval apart were both
\* dispatched, and a third one, closer than that to the second, was dropped
C2_Witness ==
    /\ Len(log) >= 3
    /\ \E k \in 1..(Len(log) - 2) :
        /\ log[k].dispatched
        /\ log[k + 1].dispatched
        /\ Gap(k, k + 1) = debounce_ms
        /\ ~log[k + 2].dispatched
        /\ Gap(k + 1, k + 2) < debounce_ms

-----------------------------------------------------------------------------
(* Stale output and the pending flag: claims C8, C10 *)

\* The markup of the template and the context as they are on disk now
CurrentMarkup == RenderMarkup(tplFile.content, LoadContext)

\* Every delivered event has been handled and no render is running
Quiescent ==
    /\ pc["delivery"] = "idle"
    /\ queue = <<>>

\* C8 as stated: once the modifications have stopped and every delivered event
\* has been handled, with no render failing, the markup and the PDF on disk are
\* those of the template and the context as last modified
C8_Original ==
    (~faults /\ Quiescent) => (htmlOut = CurrentMarkup /\ pdfOut = CurrentMarkup)

\* C10 as stated: when the relevant event handled last has dispatched a render
\* (none has been dropped since), the pending flag is false
C10_Original ==
    (log # <<>> /\ log[Len(log)].dispatched) => pending_render = FALSE

-----------------------------------------------------------------------------
(* Event relevance: claim C3 *)

\* A path nested under a directory: the directory, a separator, a name
NestedUnder(path, dir) == StartsWith(path, dir \o <<"/">>)

\* The events C3 calls relevant
RelevantAsClaimed(event) ==
    /\ ~event.is_directory
    /\ \/ event.src_path = TemplatePath
       \/ context_file # None /\ event.src_path = context_file
       \/ template_dir # None /\ NestedUnder(event.src_path, template_dir)

\* The step is a call of on_modified for the event at the head of the queue
HandlesEvent == queue # <<>> /\ queue' = Tail(queue)

\* C3 as stated: an event that is not a modification of the template file, of
\* the context file or of a file nested under the template directory is dropped
\* with no render and no change of the watcher's state, and an event that is
\* one dispatches a render unless it is debounced
C3_Original ==
    [][HandlesEvent =>
         IF RelevantAsClaimed(Head(queue))
         THEN Debounced(now, last_render_time, debounce_ms)
                 \/ pc'["delivery"] = "trigger"
         ELSE UNCHANGED <<watcher, pc, local>>]_vars

-----------------------------------------------------------------------------
(* The template cache: claims C4, C5 *)

\* The step is thread t's cache lookup (lines 121-127)
LooksUp(t) == pc[t] = "p_lookup" /\ pc'[t] # "p_lookup"

\* C4: a call of render_template loads the template from disk if and only if
\* the cache has no entry for it or the file's mtime is strictly greater than
\* the stored one; otherwise, equal timestamps included, the stored handle is
\* rendered and the template is not read from disk
C4_ReloadIffNewer ==
    [][\A t \in Threads : LooksUp(t) =>
         LET stale == \/ template_cache = NoEntry
                      \/ tplFile.mtime > template_cache.mtime
         IN /\ pc'[t] = "p_get" <=> stale
            /\ (~stale /\ outcome'[t] # "raised") =>
                  /\ pc'[t] = "p_html"
                  /\ local'[t].html.tpl = template_cache.template
                  /\ local'[t].template = NoLocal.template]_vars

\* An event-triggered render reused the cached handle because the template's
\* mtime equals the stored one
C4_Witness ==
    /\ pc["delivery"] = "p_html"
    /\ local["delivery"].template = NoLocal.template
    /\ local["delivery"].html.tpl = template_cache.template
    /\ tplFile.mtime = template_cache.mtime

-----------------------------------------------------------------------------
(* The context fallback: claim C6 *)

\* The step is thread t's call of load_context in the pipeline (line 283)
LoadsContext(t) == pc[t] = "p_load" /\ pc'[t] # "p_load"

\* The step is thread t's pipeline returning
PipelineReturns(t) == pc[t] = "p_pdf" /\ outcome'[t] = "returned"

\* The context file is configured and is missing or malformed
ContextUnusable == context_file # None /\ ctxFile \in {"missing", "malformed"}

\* C6 as stated: a pipeline run with a missing or malformed context file goes on
\* with the default payload and prints a warning, in the missing case too
C6_Original ==
    [][\A t \in Threads : (LoadsContext(t) /\ ContextUnusable) =>
         /\ pc'[t] = "p_lookup"
         /\ local'[t].context = DefaultPayload
         /\ warned']_vars

\* C6 amended: a pipeline run with a missing or malformed context file does not
\* fail because of the context; it renders the default payload, which is what
\* the markup and the PDF it writes hold, and it prints a warning in the
\* malformed case only: a missing file is replaced by the default silently
C6_Fallback ==
    [][\A t \in Threads :
         /\ (LoadsContext(t) /\ ContextUnusable) =>
               /\ pc'[t] = "p_lookup"
               /\ local'[t].context = DefaultPayload
               /\ warned' <=> ctxFile = "malformed"
         /\ (PipelineReturns(t) /\ local[t].context = DefaultPayload) =>
               /\ htmlOut'.ctx = DefaultPayload
               /\ pdfOut' = htmlOut']_vars

\* An event-triggered pipeline run has returned with the context file deleted:
\* the outputs hold the default payload although a payload had been loaded, and
\* no warning was printed
C6_Witness ==
    /\ outcome["delivery"] = "returned"
    /\ pc["delivery"] = "idle"
    /\ ctxFile = "missing"
    /\ context_data \in FilePayloads
    /\ htmlOut.ctx = DefaultPayload
    /\ pdfOut = htmlOut
    /\ htmlOut.tpl > 0
    /\ ~warned

-----------------------------------------------------------------------------
(* Failures and the two threads: claims C7, C9 *)

\* The main thread is in the watch loop, or has left it for the signal handler
InWatchLoop ==
    \/ pc["main"] \in {"watch_loop", "stopping", "joining"}
    \/ pc["main"] = "exited" /\ stop_requested

\* C7 as stated: a render failure is fatal in one-shot mode, and with watch
\* mode requested no render failure ends the process
C7_Original ==
    /\ (~watch_mode /\ outcome["main"] = "raised") => pc["main"] = "crashed"
    /\ watch_mode => (pc["main"] # "crashed" /\ pc["delivery"] # "crashed")

\* C7 amended: a failure of the initial render ends the process with a fatal
\* error in one-shot mode and with watch mode requested alike; a failure of an
\* event-triggered render is caught, and the process stays in the watch loop
C7_ByThread ==
    /\ outcome["main"] = "raised" <=> pc["main"] = "crashed"
    /\ pc["delivery"] # "crashed"
    /\ outcome["delivery"] = "raised" => InWatchLoop

\* An event-triggered render has failed and the watcher is idle again
C7_Witness ==
    /\ watch_mode
    /\ outcome["delivery"] = "raised"
    /\ pc["delivery"] = "idle"
    /\ pc["main"] = "watch_loop"

\* The positions in which a thread is running a render cycle
Rendering == PipelinePcs \cup {"trigger"}

\* C9: at most one render is in progress at any instant; the initial render on
\* the main thread ends before the observer thread is started, and the observer
\* thread runs one render at a time
C9_OneRender ==
    /\ Cardinality({t \in Threads : pc[t] \in Rendering}) <= 1
    /\ pc["main"] \in Rendering \cup {"start", "start_watching"} => pc["delivery"] = "off"

\* An event-triggered render is in progress while another event waits
C9_Witness ==
    /\ pc["delivery"] \in PipelinePcs
    /\ pc["main"] = "watch_loop"
    /\ queue # <<>>

-----------------------------------------------------------------------------
(* The dispatch transition: claim C11 *)

\* The head of the queue is a relevant event: a file, of a path on_modified
\* renders for
RelevantHead ==
    /\ queue # <<>>
    /\ ~Head(queue).is_directory
    /\ ShouldRender(Head(queue).src_path)

\* C11 as stated: when a render cycle completes and the watcher returns to
\* idle, the last-render time is the time of completion
C11_Original ==
    [][(pc["delivery"] \in PipelinePcs /\ pc'["delivery"] = "idle") =>
         last_render_time' = now']_vars

\* C11 amended: a relevant event handled the debounce interval or more after
\* the last-render time is dispatched at once and stores the time of its
\* handling as the last-render time before the render starts; no step of the
\* render cycle, its completion included, changes the last-render time, and
\* the cycle ends with the watcher idle
C11_StampAtDispatch ==
    [][/\ (HandlesEvent /\ RelevantHead /\ now - last_render_time >= debounce_ms) =>
             /\ pc'["delivery"] = "trigger"
             /\ last_render_time' = now
       /\ pc["delivery"] \in Rendering =>
             /\ last_render_time' = last_render_time
             /\ pc'["delivery"] \in Rendering \cup {"idle"}]_vars

\* A dispatched render has completed after the clock had advanced: the watcher
\* is idle and the last-render time is still the handling time of the event
C11_Witness ==
    /\ pc["delivery"] = "idle"
    /\ outcome["delivery"] = "returned"
    /\ log # <<>>
    /\ log[Len(log)].dispatched
    /\ last_render_time = log[Len(log)].at
    /\ now > last_render_time

-----------------------------------------------------------------------------
(* The leading-edge drop: claim C12 *)

\* C12: a relevant event handled less than the debounce interval after the
\* last-render time sets the pending flag and changes nothing else (no render
\* cycle starts, the context and the cache are not touched, the last-render
\* time is kept, no file is written); and the observer thread leaves idle only
\* for _trigger_render, in the very step that handles a relevant event the
\* debounce interval or more after the last-render time: no render is deferred
C12_DropNoTrailing ==
    [][/\ (HandlesEvent /\ RelevantHead /\ now - last_render_time < debounce_ms) =>
             /\ pending_render' = TRUE
             /\ UNCHANGED <<last_render_time, context_data, template_cache, pc,
                            local, outputs, warned, outcome>>
       /\ (pc["delivery"] = "idle" /\ pc'["delivery"] # "idle") =>
             /\ HandlesEvent
             /\ RelevantHead
             /\ now - last_render_time >= debounce_ms
             /\ pc'["delivery"] = "trigger"]_vars

\* The last relevant event was dropped and its change is still not rendered
\* although its debounce window has closed: the watcher is idle, no event
\* waits, and no render has failed
C12_Witness ==
    /\ ~faults
    /\ Quiescent
    /\ pending_render
    /\ log # <<>>
    /\ ~log[Len(log)].dispatched
    /\ now - last_render_time >= debounce_ms
    /\ htmlOut # CurrentMarkup

-----------------------------------------------------------------------------
(* The context reload of _trigger_render: claim C13 *)

\* The step is _trigger_render for a change of the context file that cannot be
\* loaded
ReloadFails ==
    /\ pc["delivery"] = "trigger"
    /\ pc'["delivery"] # "trigger"
    /\ context_file # None
    /\ local["delivery"].changed_file = context_file
    /\ ctxFile \notin FilePayloads

\* C13 as stated: a reload that fails aborts the render cycle with no file
\* written, the pending flag and the in-memory payload as they were, and the
\* render that follows an aborted cycle renders that in-memory payload
C13_Original ==
    [][/\ ReloadFails =>
             /\ pc'["delivery"] = "idle"
             /\ UNCHANGED <<outputs, pending_render, context_data>>
       /\ (LoadsContext("delivery") /\ outcome["delivery"] = "aborted") =>
             local'["delivery"].context = context_data]_vars

-----------------------------------------------------------------------------
(* A failing event-triggered render: claim C14 *)

\* The step is thread t's pipeline raising
PipelineRaises(t) ==
    /\ pc[t] \in PipelinePcs
    /\ outcome[t] # "raised"
    /\ outcome'[t] = "raised"

\* C14: when a step of an event-triggered render raises, the handler returns
\* and the watcher is idle again, the main thread being left where it is; and
\* after a failed render a relevant event handled the debounce interval or more
\* after the last-render time (so, a fortiori, that long after the failure)
\* dispatches a render
C14_FailureCaught ==
    [][/\ PipelineRaises("delivery") =>
             /\ pc'["delivery"] = "idle"
             /\ pc'["main"] = pc["main"]
       /\ (/\ outcome["delivery"] = "raised"
           /\ HandlesEvent
           /\ RelevantHead
           /\ now - last_render_time >= debounce_ms) =>
             pc'["delivery"] = "trigger"]_vars

\* A render was dispatched, failed, and the next relevant event has dispatched
\* another render
C14_Witness ==
    /\ outcome["delivery"] = "raised"
    /\ pc["delivery"] = "trigger"
    /\ Len(log) >= 2
    /\ log[Len(log) - 1].dispatched
    /\ log[Len(log)].dispatched

-----------------------------------------------------------------------------
(* The interrupt: claim C15 *)

\* C15: the main thread leaves the watch loop only for the signal handler and
\* the observer thread ends only when it has been stopped; the process exits
\* from the handler, not by a failure, and only when the handler has stopped
\* the observer and the observer thread has ended; once the observer is
\* stopped no event is dispatched to a render, whatever is queued; and an
\* interrupt leads to the exit of the process
C15_GracefulStop ==
    /\ [][/\ (pc["main"] = "watch_loop" /\ pc'["main"] # "watch_loop") =>
                pc'["main"] = "stopping"
          /\ (pc'["delivery"] = "terminated") => stop_requested
          /\ (InWatchLoop /\ pc["main"] # "exited" /\ pc'["main"] # pc["main"]) =>
                /\ pc'["main"] # "crashed"
                /\ (pc'["main"] = "exited" =>
                       /\ pc["main"] = "joining"
                       /\ stop_requested
                       /\ pc["delivery"] = "terminated")
          /\ (stop_requested /\ pc'["delivery"] = "trigger") =>
                pc["delivery"] = "trigger"]_vars
    /\ (pc["main"] = "stopping") ~> (pc["main"] = "exited")

\* The process has exited from the signal handler with the observer thread
\* joined, while an event for a template change that was never rendered is
\* still in the queue
C15_Witness ==
    /\ pc["main"] = "exited"
    /\ stop_requested
    /\ pc["delivery"] = "terminated"
    /\ queue # <<>>
    /\ htmlOut.tpl # tplFile.content

-----------------------------------------------------------------------------
(* An interrupt during a render: claim C16 *)

\* C16 as stated: the handler does not wait for the pipeline: when it has
\* stopped the observer and a render is in progress, it can go on to the exit
C16_Original ==
    (pc["main"] = "joining" /\ pc["delivery"] \in Rendering) => ENABLED MainJoin

\* C16 amended: a render in progress when the observer is stopped is not
\* cancelled, it runs to its end; the handler's join waits for the observer
\* thread, which is the thread that renders, so when the process has exited
\* through the handler no render is in progress, and unless a render has
\* failed the PDF on disk is that of the markup on disk
C16_HandlerWaits ==
    /\ []((pc["main"] = "exited" /\ stop_requested) =>
             /\ pc["delivery"] = "terminated"
             /\ ~faults => pdfOut = htmlOut)
    /\ [][(stop_requested /\ pc["delivery"] \in Rendering) =>
             pc'["delivery"] \in Rendering \cup {"idle"}]_vars

\* The handler has stopped the observer and is waiting in join while the
\* render in progress has written the markup and not yet the PDF
C16_Witness ==
    /\ pc["main"] = "joining"
    /\ stop_requested
    /\ pc["delivery"] = "p_pdf"
    /\ ~faults
    /\ htmlOut # pdfOut

-----------------------------------------------------------------------------
(* The writers of the shared state: claim C17 *)

\* The cache entry, the pending flag, the last-render time and the payload
shared == <<template_cache, pending_render, last_render_time, context_data>>

\* The step is taken by the main thread
MainStep == pc'["main"] # pc["main"]

\* The step is taken by the observer thread
DeliveryStep ==
    /\ ~MainStep
    /\ pc'["delivery"] # pc["delivery"] \/ HandlesEvent

\* C17 as stated: every change of the cache entry, of the pending flag, of the
\* last-render time and of the context payload is made by the observer thread
C17_Original == [][shared' # shared => DeliveryStep]_vars

\* C17 amended: the main thread changes the context payload and the cache entry
\* before the observer thread is started, and only then; once the observer
\* thread is started every change is made by it, the main thread being in the
\* watch loop or in the signal handler, where it reads and writes none of them
C17_WritersInTurn ==
    /\ [][shared' # shared =>
             \/ MainStep /\ pc["delivery"] = "off"
             \/ DeliveryStep /\ InWatchLoop]_vars
    /\ [](pc["delivery"] # "off" => InWatchLoop)

\* Both threads have written in their turn: the payload is the one the main
\* thread loaded, and the observer thread has replaced the cache entry, set the
\* pending flag and the last-render time
C17_Witness ==
    /\ pc["main"] = "watch_loop"
    /\ context_data = DefaultPayload
    /\ template_cache.template > 0
    /\ pending_render
    /\ last_render_time > 0

-----------------------------------------------------------------------------
(* The spacing of dispatches: claim C18 *)

\* C18: the last-render time never decreases and changes only in the step that
\* dispatches an event, and any two dispatched events are handled the debounce
\* interval or more apart, whether the render cycles between them return,
\* raise or abort on a context that cannot be loaded
C18_MinSpacing ==
    /\ [][/\ last_render_time' >= last_render_time
           /\ last_render_time' # last_render_time =>
                 /\ HandlesEvent
                 /\ RelevantHead
                 /\ pc["delivery"] = "idle"
                 /\ pc'["delivery"] = "trigger"
                 /\ last_render_time' = now]_vars
    /\ [](\A i \in 1..Len(log) : \A j \in (i + 1)..Len(log) :
             (log[i].dispatched /\ log[j].dispatched) => Gap(i, j) >= debounce_ms)

\* An event has been dispatched exactly the debounce interval after the one
\* before, whose cycle was aborted by a context file that could not be loaded
C18_Witness ==
    /\ pc["delivery"] = "trigger"
    /\ outcome["delivery"] = "aborted"
    /\ Len(log) >= 2
    /\ log[Len(log) - 1].dispatched
    /\ log[Len(log)].dispatched
    /\ Gap(Len(log) - 1, Len(log)) = debounce_ms

-----------------------------------------------------------------------------
(* The cache entry and concurrent edits: claim C19 *)

\* The step is thread t's store of the cache entry (line 134)
Stores(t) == pc[t] = "p_store" /\ pc'[t] # "p_store"

\* C19 as stated: the timestamp stored in the cache entry is the mtime of the
\* file the stored handle was loaded from, and a render that reuses the cached
\* handle never reuses one older than the template on disk
C19_Original ==
    [][\A t \in Threads :
         /\ Stores(t) => template_cache'.mtime = local[t].mtime
         /\ (LooksUp(t) /\ pc'[t] = "p_html") =>
               template_cache.template >= tplFile.content]_vars

-----------------------------------------------------------------------------
(* The first event of watch mode: claim C20 *)

\* C20: the initial render leaves the last-render time at 0, the value the
\* watcher is created with, until an event is dispatched, and the first
\* relevant event handled in watch mode dispatches a render, however soon
\* after the initial render it is handled
C20_FirstEventDispatches ==
    /\ (pc["delivery"] # "off" /\ log = <<>>) => last_render_time = 0
    /\ log # <<>> => log[1].dispatched

\* The first relevant event was handled in the clock tick in which the program
\* started, so in the tick of the initial render, and was dispatched
C20_Witness ==
    /\ outcome["main"] = "returned"
    /\ log # <<>>
    /\ log[1].at = StartTime
    /\ log[1].dispatched

=============================================================================
